---- MODULE Spec2Model ----
(***************************************************************************)
(* Model of airtifex-api/src/llm/llama.rs: the inference scheduling engine *)
(* started by initialize_model_and_handle_inferences.  Its threads: the    *)
(* intake thread that bridges the inbound channel into REQUEST_QUEUE, the  *)
(* inference thread (admission, stepping, reaping), the persistence thread *)
(* with the store tasks it spawns, and the callers, which submit requests  *)
(* and may drop their Senders.  The model capability (llama_rs) and the    *)
(* chat store are opaque sources of nondeterministic outcomes.  Sessions   *)
(* are touched by the inference thread alone, so one infer_next_token call *)
(* is one atomic action; the RwLock is taken and released in separate      *)
(* steps, so that either thread can find it held.  tx_results is the log   *)
(* of the SaveDataRequests sent to the persistence thread, store_calls the *)
(* log of the store calls made for each of them.                           *)
(* Prompt construction, a function of the request alone, is followed on   *)
(* its own in PromptSpec.                                                  *)
(***************************************************************************)
EXTENDS Integers, Sequences, FiniteSets, TLC

\* ------------------------------------------------------------------ bounds
NumRequests == 3       \* requests the callers submit in one behaviour
MaxSessions == 2       \* largest configured max_inference_sessions
MaxPredict == 0        \* largest num_predict a request carries
MaxHistory == 2        \* most prior turns in the history of a request
MaxUnits == 2          \* raw units the model returns within one infer_next_token call
MaxTokens == MaxPredict + 2   \* chunks the model produces for one session

\* --------------------------------------------------------------- constants
None == -1                    \* Option::None of num_predict
USIZE_MAX == 2147483647       \* usize::MAX, the unwrap_or default

\* Raw units the model may return: an empty unit, and the lead and the
\* continuation byte of a two-byte UTF-8 sequence.
RawUnits == {<<>>, <<195>>, <<169>>}

VARIABLES
    max_inference_sessions, \* config.max_inference_sessions
    next_id,                \* id of the next request a caller submits
    senders_alive,          \* some Sender of the inbound channel is still alive
    rx_request,             \* inbound channel: requests sent, not yet received
    intake_pc,              \* position of the intake thread
    inference_request,      \* request the intake thread holds (<<>> when none)
    temp_queue,             \* intake thread's local staging queue
    REQUEST_QUEUE,          \* the shared queue behind the RwLock
    lock,                   \* RwLock state: "free", "intake" or "sched"
    sched_pc,               \* position of the inference thread
    free_spots,             \* local of the inference loop
    cur,                    \* index of the session the for loop is at
    running_sessions,       \* VecDeque<RunningInferenceSession>
    tx_results,             \* SaveDataRequests sent to the persistence thread
    store_calls,            \* per SaveDataRequest received: the store calls of its task
    stepped,                \* history: the infer_next_token calls of this tick, with results
    received,               \* history: ids the intake thread received, in order
    recv_failed,            \* history: rx.recv() of the intake thread returned Err
    appended,               \* history: ids pushed to REQUEST_QUEUE, in order
    fed,                    \* history: ids whose prompt feed was attempted, in order
    feed_failed,            \* history: ids whose feed failed in this admission phase
    try_write_failed,       \* history: the lock attempt of this tick failed
    prompt_request,         \* prompt construction alone: the InferenceRequest it is given
    processed_prompt        \* ... and state.processed_prompt, <<>> until constructed

vars == <<max_inference_sessions, next_id, senders_alive, rx_request, intake_pc, inference_request,
          temp_queue, REQUEST_QUEUE, lock, sched_pc, free_spots, cur,
          running_sessions, tx_results, store_calls, stepped, received, recv_failed, appended,
          fed, feed_failed, try_write_failed, prompt_request, processed_prompt>>

intakeVars == <<intake_pc, inference_request, temp_queue, received, recv_failed>>
schedVars == <<sched_pc, free_spots, cur, running_sessions, tx_results, stepped, fed, feed_failed, try_write_failed>>

\* ------------------------------------------------------------------ helpers
Ids(q) == [i \in 1..Len(q) |-> q[i].id]

\* InferenceRequest: id stands for the prompt text and the conversation id.
InferenceRequest(i, n, c) == [id |-> i, num_predict |-> n, chat_data |-> c]

\* num_predict.unwrap_or(usize::MAX)
unwrap_or(n, d) == IF n = None THEN d ELSE n

\* std::str::from_utf8(bytes).is_ok() over one- and two-byte sequences
RECURSIVE from_utf8_ok(_)
from_utf8_ok(b) ==
    IF b = <<>> THEN TRUE
    ELSE IF b[1] < 128 THEN from_utf8_ok(Tail(b))
    ELSE IF b[1] >= 194 /\ b[1] <= 223
         THEN Len(b) >= 2 /\ b[2] >= 128 /\ b[2] <= 191 /\ from_utf8_ok(Tail(Tail(b)))
    ELSE FALSE

\* TokenUtf8Buffer::push: the buffer after the push ...
buf_after_push(b, unit) == IF from_utf8_ok(b \o unit) THEN <<>> ELSE b \o unit
\* ... and the chunk it returns (Some), NoChunk standing for Option::None
NoChunk == <<-1>>
buf_push(b, unit) == IF from_utf8_ok(b \o unit) THEN b \o unit ELSE NoChunk

\* get_inference_session: a fresh RunningInferenceSession around the request.
\* sent is the log of chunks delivered through request.tx_tokens; errored
\* records that a step of this session saw a model error, raw the bytes of
\* all raw units the model returned for the session, generated the chunks
\* appended to the answer, in order (histories).
get_inference_session(req) ==
    [request |-> req, processed_tokens |-> 0, answer |-> <<>>, is_finished |-> FALSE,
     sent |-> <<>>, errored |-> FALSE, raw |-> <<>>, generated |-> <<>>]

\* save_results: mark finished, and emit a SaveDataRequest when the request
\* has chat data and the answer is not empty.
save_results_session(s) == [s EXCEPT !.is_finished = TRUE]
\* (faulty variant: the emptiness test of the answer left out)
save_results_channel_any_answer(s, ch) ==
    IF s.request.chat_data
    THEN Append(ch, [conversation_id |-> s.request.id, input |-> s.request.id,
                     output |-> s.answer])
    ELSE ch
\* (faulty variant: the test for chat data left out)
save_results_channel_without_chat(s, ch) ==
    IF s.answer # <<>>
    THEN Append(ch, [conversation_id |-> s.request.id, input |-> s.request.id,
                     output |-> s.answer])
    ELSE ch
save_results_channel(s, ch) ==
    IF s.request.chat_data /\ s.answer # <<>>
    THEN Append(ch, [conversation_id |-> s.request.id, input |-> s.request.id,
                     output |-> s.answer])
    ELSE ch

Range(q) == {q[i] : i \in 1..Len(q)}

\* free_spots = max_inference_sessions - running_sessions.len()
\* (faulty variant: the active sessions not subtracted)
free_spots_ignoring_active(max, len) == max
free_spots_of(max, len) == max - len

\* the second conjunct of the admission loop condition, free_spots > 0
\* (faulty variant: >= for >)
has_free_spot_off_by_one(f) == f >= 0
has_free_spot(f) == f > 0

\* the intake thread under the lock: staged requests first, then the new one
\* (faulty variant: the new request pushed before the staged ones)
flush_newest_first(queue, temp, req) == queue \o req \o temp
flush(queue, temp, req) == queue \o temp \o req

\* REQUEST_QUEUE.try_write() returns Ok: no other guard is alive
\* (faulty variant: the guard is handed out whoever holds the lock)
try_write_regardless(l) == TRUE
try_write_ok(l) == l = "free"

\* the test of the stepping pass
within_limit(s) == s.processed_tokens <= unwrap_or(s.request.num_predict, USIZE_MAX)

\* running_sessions.retain(|s| !s.state.is_finished)
\* (faulty variant: the finished sessions kept)
retain_finished_too(ss) == ss
retain(ss) == SelectSeq(ss, LAMBDA s : ~s.is_finished)

\* ------------------------------------------------------------------ initial
\* the request prompt construction is given when it is not looked at: no
\* chat data, no system prompt, an empty prompt
NoPromptRequest == [prompt |-> <<>>, system_prompt |-> <<>>, chat_data |-> <<>>]

EngineInit ==
    /\ max_inference_sessions \in 1..MaxSessions
    /\ next_id = 1
    /\ senders_alive = TRUE
    /\ rx_request = <<>>
    /\ intake_pc = "recv"
    /\ inference_request = <<>>
    /\ temp_queue = <<>>
    /\ REQUEST_QUEUE = <<>>
    /\ lock = "free"
    /\ sched_pc = "tick"
    /\ free_spots = 0
    /\ cur = 0
    /\ running_sessions = <<>>
    /\ tx_results = <<>>
    /\ store_calls = <<>>
    /\ stepped = <<>>
    /\ received = <<>>
    /\ recv_failed = FALSE
    /\ appended = <<>>
    /\ fed = <<>>
    /\ feed_failed = {}
    /\ try_write_failed = FALSE

Init == EngineInit /\ prompt_request = NoPromptRequest /\ processed_prompt = <<>>

\* ------------------------------------------------------------------ callers
\* A caller sends an InferenceRequest on tx_request.  Nothing reads the
\* fields of a request before get_inference_session does, so a waiting
\* request is its id and its fields are drawn where they are first read.
Submit ==
    /\ senders_alive
    /\ next_id <= NumRequests
    /\ rx_request' = Append(rx_request, [id |-> next_id])
    /\ next_id' = next_id + 1
    /\ UNCHANGED <<prompt_request, processed_prompt, max_inference_sessions, store_calls, senders_alive, REQUEST_QUEUE, lock, appended>>
    /\ UNCHANGED intakeVars
    /\ UNCHANGED schedVars

\* The callers drop every Sender of the inbound channel rather than submit
\* a further request: the channel is closed for good once the requests
\* already sent are received.
DropSenders ==
    /\ senders_alive
    /\ next_id <= NumRequests
    /\ senders_alive' = FALSE
    /\ UNCHANGED <<prompt_request, processed_prompt, max_inference_sessions, store_calls, next_id, rx_request, REQUEST_QUEUE,
                   lock, appended>>
    /\ UNCHANGED intakeVars
    /\ UNCHANGED schedVars

\* ------------------------------------------------------------ intake thread
\* rx.recv() returns Ok(inference_request)
IntakeRecv ==
    /\ intake_pc = "recv"
    /\ rx_request # <<>>
    /\ inference_request' = <<Head(rx_request)>>
    /\ rx_request' = Tail(rx_request)
    /\ received' = Append(received, Head(rx_request).id)
    /\ intake_pc' = "try"
    /\ UNCHANGED <<prompt_request, processed_prompt, max_inference_sessions, store_calls, senders_alive, next_id, temp_queue, REQUEST_QUEUE,
                   lock, appended, recv_failed>>
    /\ UNCHANGED schedVars

\* rx.recv() returns Err (channel empty and every Sender dropped): the
\* `if let Ok` has no else branch, the loop goes round to rx.recv() again
IntakeRecvErr ==
    /\ intake_pc = "recv"
    /\ rx_request = <<>>
    /\ ~senders_alive
    /\ recv_failed' = TRUE
    /\ UNCHANGED <<prompt_request, processed_prompt, max_inference_sessions, store_calls, senders_alive, next_id, rx_request, REQUEST_QUEUE,
                   lock, appended, intake_pc, inference_request, temp_queue, received>>
    /\ UNCHANGED schedVars

\* REQUEST_QUEUE.try_write() succeeds
IntakeTryWriteOk ==
    /\ intake_pc = "try"
    /\ try_write_ok(lock)
    /\ lock' = "intake"
    /\ intake_pc' = "write"
    /\ UNCHANGED <<prompt_request, processed_prompt, max_inference_sessions, store_calls, senders_alive, next_id, rx_request, inference_request,
                   temp_queue, REQUEST_QUEUE, received, appended, recv_failed>>
    /\ UNCHANGED schedVars

\* REQUEST_QUEUE.try_write() fails: stage the request locally
IntakeTryWriteErr ==
    /\ intake_pc = "try"
    /\ ~try_write_ok(lock)
    /\ temp_queue' = temp_queue \o inference_request
    /\ inference_request' = <<>>
    /\ intake_pc' = "recv"
    /\ UNCHANGED <<prompt_request, processed_prompt, max_inference_sessions, store_calls, senders_alive, next_id, rx_request, REQUEST_QUEUE,
                   lock, received, appended, recv_failed>>
    /\ UNCHANGED schedVars

\* under the lock: flush temp_queue, push the new request, drop the guard
IntakeWrite ==
    /\ intake_pc = "write"
    /\ REQUEST_QUEUE' = flush(REQUEST_QUEUE, temp_queue, inference_request)
    /\ appended' = appended \o
          Ids(SubSeq(REQUEST_QUEUE', Len(REQUEST_QUEUE) + 1, Len(REQUEST_QUEUE')))
    /\ temp_queue' = <<>>
    /\ inference_request' = <<>>
    /\ lock' = "free"
    /\ intake_pc' = "recv"
    /\ UNCHANGED <<prompt_request, processed_prompt, max_inference_sessions, store_calls, senders_alive, next_id, rx_request, received,
                   recv_failed>>
    /\ UNCHANGED schedVars

\* --------------------------------------------------------- inference thread
\* top of the loop: compute free_spots and, when positive, try the lock;
\* free_spots is not read after the admission block and is 0 outside it
SchedTick ==
    /\ sched_pc = "tick"
    /\ IF /\ free_spots_of(max_inference_sessions, Len(running_sessions)) > 0
          /\ try_write_ok(lock)
       THEN /\ free_spots' = free_spots_of(max_inference_sessions, Len(running_sessions))
            /\ lock' = "sched" /\ sched_pc' = "admit" /\ cur' = cur
            /\ try_write_failed' = FALSE
       ELSE /\ free_spots' = 0
            /\ lock' = lock /\ sched_pc' = "step" /\ cur' = 1
            /\ try_write_failed' =
                  (free_spots_of(max_inference_sessions, Len(running_sessions)) > 0)
    /\ UNCHANGED <<prompt_request, processed_prompt, max_inference_sessions, store_calls, senders_alive, next_id, rx_request, REQUEST_QUEUE,
                   appended, running_sessions, tx_results, stepped, fed, feed_failed>>
    /\ UNCHANGED intakeVars

\* queue.pop_front() returns None: the while loop ends, the guard is dropped
AdmitEmpty ==
    /\ sched_pc = "admit"
    /\ REQUEST_QUEUE = <<>>
    /\ lock' = "free"
    /\ free_spots' = 0
    /\ feed_failed' = {}
    /\ sched_pc' = "step"
    /\ cur' = 1
    /\ UNCHANGED <<prompt_request, processed_prompt, max_inference_sessions, store_calls, senders_alive, next_id, rx_request, REQUEST_QUEUE, appended,
                   running_sessions, tx_results, stepped, fed, try_write_failed>>
    /\ UNCHANGED intakeVars

\* queue.pop_front() returns a request but free_spots > 0 is false: the
\* condition fails after the pop, the popped request is dropped
AdmitNoSpot ==
    /\ sched_pc = "admit"
    /\ REQUEST_QUEUE # <<>>
    /\ ~has_free_spot(free_spots)
    /\ REQUEST_QUEUE' = Tail(REQUEST_QUEUE)
    /\ lock' = "free"
    /\ free_spots' = 0
    /\ feed_failed' = {}
    /\ sched_pc' = "step"
    /\ cur' = 1
    /\ UNCHANGED <<prompt_request, processed_prompt, max_inference_sessions, store_calls, senders_alive, next_id, rx_request, appended,
                   running_sessions, tx_results, stepped, fed, try_write_failed>>
    /\ UNCHANGED intakeVars

\* loop body, feed_prompt returns Ok: the session joins running_sessions
AdmitFeedOk ==
    /\ sched_pc = "admit"
    /\ REQUEST_QUEUE # <<>>
    /\ has_free_spot(free_spots)
    /\ REQUEST_QUEUE' = Tail(REQUEST_QUEUE)
    /\ fed' = Append(fed, Head(REQUEST_QUEUE).id)
    /\ \E n \in {None} \cup (0..MaxPredict), c \in BOOLEAN :
          running_sessions' = Append(running_sessions,
              get_inference_session(InferenceRequest(Head(REQUEST_QUEUE).id, n, c)))
    /\ free_spots' = free_spots - 1
    /\ UNCHANGED <<prompt_request, processed_prompt, max_inference_sessions, store_calls, senders_alive, next_id, rx_request, lock, appended,
                   sched_pc, cur, tx_results, stepped, feed_failed, try_write_failed>>
    /\ UNCHANGED intakeVars

\* free_spots after the Err branch of feed_prompt, which only logs
\* (faulty variant: the failed feed takes a slot)
free_spots_less_failed_feed(f) == f - 1
free_spots_after_failed_feed(f) == f

\* loop body, feed_prompt returns Err: logged, the session is dropped
AdmitFeedErr ==
    /\ sched_pc = "admit"
    /\ REQUEST_QUEUE # <<>>
    /\ has_free_spot(free_spots)
    /\ REQUEST_QUEUE' = Tail(REQUEST_QUEUE)
    /\ fed' = Append(fed, Head(REQUEST_QUEUE).id)
    /\ feed_failed' = feed_failed \cup {Head(REQUEST_QUEUE).id}
    /\ free_spots' = free_spots_after_failed_feed(free_spots)
    /\ UNCHANGED <<prompt_request, processed_prompt, max_inference_sessions, store_calls, senders_alive, next_id, rx_request, lock, appended,
                   sched_pc, cur, running_sessions, tx_results, stepped, try_write_failed>>
    /\ UNCHANGED intakeVars

\* for session in &mut running_sessions: the position visited next
\* (faulty variant: the loop stays on the session it has just visited)
same_session(i) == i
next_session(i) == i + 1

\* the guard of every step: the for loop is at a session within its limit
StepGuard ==
    /\ sched_pc = "step"
    /\ cur <= Len(running_sessions)
    /\ within_limit(running_sessions[cur])

\* else branch: already inferred the maximum number of tokens
StepOverLimit ==
    /\ sched_pc = "step"
    /\ cur <= Len(running_sessions)
    /\ ~within_limit(running_sessions[cur])
    /\ running_sessions' = [running_sessions EXCEPT ![cur].is_finished = TRUE]
    /\ cur' = next_session(cur)
    /\ UNCHANGED <<prompt_request, processed_prompt, max_inference_sessions, store_calls, senders_alive, next_id, rx_request, REQUEST_QUEUE, lock, appended,
                   sched_pc, free_spots, tx_results, stepped, fed, feed_failed, try_write_failed>>
    /\ UNCHANGED intakeVars

\* the log of this tick's infer_next_token calls, after a call on s returned
\* and left the session as after: what the call returned on, and how many
\* chunks it put on the caller's channel
called(log, s, after, result) ==
    Append(log, [id |-> s.request.id, result |-> result,
                 chunks |-> Len(after.sent) - Len(s.sent)])

\* the sequences of raw units the model may return within one call
UnitSeqs == UNION {[1..n -> RawUnits] : n \in 1..MaxUnits}

\* the loop of infer_next_token over the units the model returns, from
\* buffer b: the first chunk buf.push yields ends it; chunk is NoChunk when
\* no unit completed one, rest are the units the loop never asked for
RECURSIVE infer_loop(_, _)
infer_loop(b, units) ==
    IF units = <<>> THEN [chunk |-> NoChunk, rest |-> <<>>]
    ELSE IF buf_push(b, Head(units)) # NoChunk
         THEN [chunk |-> buf_push(b, Head(units)), rest |-> Tail(units)]
         ELSE infer_loop(buf_after_push(b, Head(units)), Tail(units))

\* the buffer a new call starts with: TokenUtf8Buffer::new()
TokenUtf8Buffer_new == <<>>

\* the valid tokens one call can end with: the model returns units of which
\* the last one, and no earlier one, completes a chunk
ValidTokens ==
    {infer_loop(TokenUtf8Buffer_new, units).chunk : units \in
        {u \in UnitSeqs : /\ infer_loop(TokenUtf8Buffer_new, u).chunk # NoChunk
                          /\ infer_loop(TokenUtf8Buffer_new, u).rest = <<>>}}

\* the bytes of a sequence of raw units
RECURSIVE bytes_of(_)
bytes_of(units) == IF units = <<>> THEN <<>> ELSE Head(units) \o bytes_of(Tail(units))

\* what the buffer of a call holds when the model ends the call with an
\* error: nothing, or the bytes of units that completed no chunk
PendingBytes ==
    {TokenUtf8Buffer_new} \cup {bytes_of(u) : u \in
        {u \in UnitSeqs : infer_loop(TokenUtf8Buffer_new, u).chunk = NoChunk}}

\* the model still returns units that complete no chunk, within the bounds
model_may_leave(s, pending) == Len(s.raw) - Len(s.answer) + Len(pending) <= MaxUnits

\* infer_next_token: after any units that left the buffer incomplete the
\* model returns Err(EndOfText): save_results, break, Ok(())
InferEndOfText ==
    /\ StepGuard
    /\ running_sessions' = [running_sessions EXCEPT ![cur] = save_results_session(@)]
    /\ tx_results' = save_results_channel(running_sessions[cur], tx_results)
    /\ stepped' = called(stepped, running_sessions[cur], running_sessions'[cur], "eot")
    /\ cur' = next_session(cur)
    /\ UNCHANGED <<prompt_request, processed_prompt, max_inference_sessions, store_calls, senders_alive, next_id, rx_request, REQUEST_QUEUE, lock, appended,
                   sched_pc, free_spots, fed, feed_failed, try_write_failed>>
    /\ UNCHANGED intakeVars

\* the session after a model error other than EndOfText: return Err(e.into())
after_model_error(s) == [s EXCEPT !.errored = TRUE]

\* infer_next_token: the model returns another error, which is propagated
\* to the loop and logged there.  buf is a local of the call and is dropped
\* with whatever it holds, so the step is the same wherever in the loop the
\* error comes; raw is left as it is
InferError ==
    /\ StepGuard
    /\ running_sessions' = [running_sessions EXCEPT ![cur] = after_model_error(@)]
    /\ stepped' = called(stepped, running_sessions[cur], running_sessions'[cur], "error")
    /\ cur' = next_session(cur)
    /\ UNCHANGED <<prompt_request, processed_prompt, max_inference_sessions, store_calls, senders_alive, next_id, rx_request, REQUEST_QUEUE, lock, appended,
                   sched_pc, free_spots, tx_results, fed, feed_failed, try_write_failed>>
    /\ UNCHANGED intakeVars

\* the same step, with the units the loop consumed before the error
\* recorded in raw: they completed no chunk and are dropped with buf
InferErrorAfterUnits ==
    /\ StepGuard
    /\ \E pending \in PendingBytes \ {<<>>} :
          /\ model_may_leave(running_sessions[cur], pending)
          /\ running_sessions' = [running_sessions EXCEPT ![cur] =
                [after_model_error(@) EXCEPT !.raw = @ \o pending]]
    /\ stepped' = called(stepped, running_sessions[cur], running_sessions'[cur], "error")
    /\ cur' = next_session(cur)
    /\ UNCHANGED <<prompt_request, processed_prompt, max_inference_sessions, store_calls, senders_alive, next_id, rx_request, REQUEST_QUEUE, lock, appended,
                   sched_pc, free_spots, tx_results, fed, feed_failed, try_write_failed>>
    /\ UNCHANGED intakeVars

\* the model still produces tokens for this session, within the bounds
model_may_return(s) == s.processed_tokens < MaxTokens

\* the session after a valid token was appended and counted
\* (faulty variant: the answer overwritten by the token)
with_token_overwriting(s, valid_token) ==
    [s EXCEPT !.answer = valid_token, !.processed_tokens = @ + 1,
              !.raw = @ \o valid_token, !.generated = Append(@, valid_token)]
with_token(s, valid_token) ==
    [s EXCEPT !.answer = @ \o valid_token, !.processed_tokens = @ + 1,
              !.raw = @ \o valid_token, !.generated = Append(@, valid_token)]

\* request.tx_tokens.send(Ok(valid_token)) on the caller's channel
\* (faulty variant: the chunk put ahead of the ones already sent)
send_to_front(ch, valid_token) == <<valid_token>> \o ch
send(ch, valid_token) == Append(ch, valid_token)

\* infer_next_token: buf.push gives Some(valid_token), the send succeeds
InferSendOk ==
    /\ StepGuard
    /\ model_may_return(running_sessions[cur])
    /\ \E valid_token \in ValidTokens :
          running_sessions' = [running_sessions EXCEPT ![cur] =
                [with_token(@, valid_token) EXCEPT !.sent = send(@, valid_token)]]
    /\ stepped' = called(stepped, running_sessions[cur], running_sessions'[cur], "sent")
    /\ cur' = next_session(cur)
    /\ UNCHANGED <<prompt_request, processed_prompt, max_inference_sessions, store_calls, senders_alive, next_id, rx_request, REQUEST_QUEUE, lock, appended,
                   sched_pc, free_spots, tx_results, fed, feed_failed, try_write_failed>>
    /\ UNCHANGED intakeVars

\* ... the send fails (receiver dropped): save_results, Err(InferenceSend)
InferSendErr ==
    /\ StepGuard
    /\ model_may_return(running_sessions[cur])
    /\ \E valid_token \in ValidTokens :
          /\ running_sessions' = [running_sessions EXCEPT ![cur] =
                save_results_session(with_token(@, valid_token))]
          /\ tx_results' = save_results_channel(
                with_token(running_sessions[cur], valid_token), tx_results)
    /\ stepped' = called(stepped, running_sessions[cur], running_sessions'[cur], "send_failed")
    /\ cur' = next_session(cur)
    /\ UNCHANGED <<prompt_request, processed_prompt, max_inference_sessions, store_calls, senders_alive, next_id, rx_request, REQUEST_QUEUE, lock, appended,
                   sched_pc, free_spots, fed, feed_failed, try_write_failed>>
    /\ UNCHANGED intakeVars

\* end of the for loop: running_sessions.retain(...), sleep, next tick
Retain ==
    /\ sched_pc = "step"
    /\ cur > Len(running_sessions)
    /\ running_sessions' = retain(running_sessions)
    /\ stepped' = <<>>
    /\ try_write_failed' = FALSE
    /\ cur' = 0
    /\ sched_pc' = "tick"
    /\ UNCHANGED <<prompt_request, processed_prompt, max_inference_sessions, store_calls, senders_alive, next_id, rx_request, REQUEST_QUEUE, lock, appended,
                   free_spots, tx_results, fed, feed_failed>>
    /\ UNCHANGED intakeVars

\* ------------------------------------------------------- persistence thread
\* rx_results.recv() returns the next SaveDataRequest: the thread builds the
\* two ChatEntries and spawns the task that stores them, without waiting for
\* it.  (Its else branch, all Senders gone, cannot be taken: the inference
\* thread owns tx_results and never returns.)
PersistRecv ==
    /\ Len(store_calls) < Len(tx_results)
    /\ store_calls' = Append(store_calls, <<>>)
    /\ UNCHANGED <<prompt_request, processed_prompt, max_inference_sessions, senders_alive, next_id, rx_request, REQUEST_QUEUE,
                   lock, appended>>
    /\ UNCHANGED intakeVars
    /\ UNCHANGED schedVars

\* ChatEntry::new_user / new_bot and the result of its create call
ChatEntry(conversation_id, entry_type, content, ok) ==
    [conversation_id |-> conversation_id, entry_type |-> entry_type,
     content |-> content, ok |-> ok]

\* the spawned task: user.create, then bot.create, each failure only logged
\* (faulty variant: the task gives up when the user entry cannot be stored)
task_calls_until_failure(save_data_request, user_ok, bot_ok) ==
    IF user_ok
    THEN <<ChatEntry(save_data_request.conversation_id, "user",
                     save_data_request.input, user_ok),
           ChatEntry(save_data_request.conversation_id, "bot",
                     save_data_request.output, bot_ok)>>
    ELSE <<ChatEntry(save_data_request.conversation_id, "user",
                     save_data_request.input, user_ok)>>
\* (faulty variant: the bot entry stored before the user entry)
task_calls_bot_first(save_data_request, user_ok, bot_ok) ==
    <<ChatEntry(save_data_request.conversation_id, "bot",
                save_data_request.output, bot_ok),
      ChatEntry(save_data_request.conversation_id, "user",
                save_data_request.input, user_ok)>>
task_calls(save_data_request, user_ok, bot_ok) ==
    <<ChatEntry(save_data_request.conversation_id, "user",
                save_data_request.input, user_ok),
      ChatEntry(save_data_request.conversation_id, "bot",
                save_data_request.output, bot_ok)>>

\* the runtime runs the task spawned for the k-th SaveDataRequest
TaskRun ==
    \E k \in 1..Len(store_calls) : \E user_ok, bot_ok \in BOOLEAN :
        /\ store_calls[k] = <<>>
        /\ store_calls' = [store_calls EXCEPT ![k] = task_calls(tx_results[k], user_ok, bot_ok)]
        /\ UNCHANGED <<prompt_request, processed_prompt, max_inference_sessions, senders_alive, next_id, rx_request,
                       REQUEST_QUEUE, lock, appended>>
        /\ UNCHANGED intakeVars
        /\ UNCHANGED schedVars

Next ==
    \/ Submit \/ DropSenders
    \/ PersistRecv \/ TaskRun
    \/ IntakeRecv \/ IntakeRecvErr \/ IntakeTryWriteOk \/ IntakeTryWriteErr \/ IntakeWrite
    \/ SchedTick \/ AdmitEmpty \/ AdmitNoSpot \/ AdmitFeedOk \/ AdmitFeedErr
    \/ StepOverLimit
    \/ InferEndOfText \/ InferError \/ InferSendOk \/ InferSendErr
    \/ Retain

Spec == Init /\ [][Next]_vars

\* the two threads of the engine, for the fairness of FairSpec
IntakeThread == IntakeRecv \/ IntakeRecvErr \/ IntakeTryWriteOk \/ IntakeTryWriteErr \/ IntakeWrite
InferenceThread ==
    \/ SchedTick \/ AdmitEmpty \/ AdmitNoSpot \/ AdmitFeedOk \/ AdmitFeedErr
    \/ StepOverLimit
    \/ InferEndOfText \/ InferError \/ InferSendOk \/ InferSendErr
    \/ Retain

\* The threads are spawned once and loop for ever, and the runtime runs
\* every task spawned on it: each keeps taking steps.
Fairness ==
    /\ WF_vars(IntakeThread) /\ WF_vars(InferenceThread)
    /\ WF_vars(PersistRecv) /\ WF_vars(TaskRun)
FairSpec == Spec /\ Fairness

\* The engine configured with a single slot.
OneSlotInit == Init /\ max_inference_sessions = 1
OneSlotFairSpec == OneSlotInit /\ [][Next]_vars /\ Fairness

\* The engine with one slot, following the raw units of each session: the
\* units consumed before a model error are recorded as well.
StreamNext == Next \/ InferErrorAfterUnits
StreamSpec == OneSlotInit /\ [][StreamNext]_vars

\* ------------------------------------------------------ prompt construction
\* Text is a sequence of symbols; the two slot names are symbols of their
\* own, and so are the role markers and the newline.  An Option<String> is a
\* sequence of no or one text.
HISTORY == "{{HISTORY}}"
PROMPT == "{{PROMPT}}"
ANSWER_PREFIX == <<"Llama: ">>
USER_PREFIX == <<"User: ">>
CONVERSATION_PROMPT ==
    <<"Your name is Llama ... ### Conversation:", HISTORY, "### Request:", PROMPT,
      "### Response:">>

\* str::replace(from, to): every occurrence of from replaced by to
RECURSIVE replace(_, _, _)
replace(s, from, to) ==
    IF s = <<>> THEN <<>>
    ELSE (IF Head(s) = from THEN to ELSE <<Head(s)>>) \o replace(Tail(s), from, to)

\* chat.history.iter().fold(String::new(), ...): prefix, content, newline
RECURSIVE history_fold(_, _)
history_fold(acc, entries) ==
    IF entries = <<>> THEN acc
    ELSE history_fold(
            acc \o (IF Head(entries).entry_type = "Bot" THEN ANSWER_PREFIX ELSE USER_PREFIX)
                \o Head(entries).content \o <<"\n">>,
            Tail(entries))

\* the prompt of get_inference_session
prompt_of(request) ==
    IF request.chat_data # <<>>
    THEN LET history == history_fold(<<>>, request.chat_data[1])
             user_prompt == USER_PREFIX \o request.prompt
             template == IF request.system_prompt # <<>> THEN request.system_prompt[1]
                         ELSE CONVERSATION_PROMPT
         IN  replace(replace(template, HISTORY, history), PROMPT, user_prompt)
    ELSE request.prompt

\* the texts of requests and of history entries: plain text, and text that
\* is one of the slot names
Texts == {<<"x">>, <<HISTORY>>, <<PROMPT>>}
\* the system prompts a request may override the default with
Templates == {<<HISTORY, PROMPT>>, <<PROMPT, "x", HISTORY>>, <<"x">>}
ChatEntries == [entry_type : {"User", "Bot"}, content : Texts]
Histories == UNION {[1..n -> ChatEntries] : n \in 0..MaxHistory}
PromptRequests ==
    [prompt : Texts,
     system_prompt : {<<>>} \cup {<<tpl>> : tpl \in Templates},
     chat_data : {<<>>} \cup {<<h>> : h \in Histories}]

\* get_inference_session constructs state.processed_prompt
BuildPrompt ==
    /\ processed_prompt = <<>>
    /\ processed_prompt' = <<prompt_of(prompt_request)>>
    /\ UNCHANGED <<prompt_request, max_inference_sessions, store_calls, senders_alive, next_id,
                   rx_request, REQUEST_QUEUE, lock, appended>>
    /\ UNCHANGED intakeVars
    /\ UNCHANGED schedVars

\* prompt construction alone, over the requests of PromptRequests
PromptInit ==
    /\ EngineInit /\ max_inference_sessions = 1
    /\ prompt_request \in PromptRequests
    /\ processed_prompt = <<>>
PromptNext == BuildPrompt
PromptSpec == PromptInit /\ [][PromptNext]_vars

\* ------------------------------------------------------------------ claims
\* ids waiting in the intake: held by the intake thread, staged, or queued
Waiting == Range(Ids(inference_request)) \cup Range(Ids(temp_queue))
              \cup Range(Ids(REQUEST_QUEUE))
Sessions == Range(running_sessions)
ActiveIds == {s.request.id : s \in Sessions}
\* a request whose prompt was fed and that is no longer running, or is finished
Terminal(i) ==
    /\ i \in Range(fed)
    /\ \A s \in Sessions : s.request.id = i => s.is_finished

\* C1: the active set never holds more than max_inference_sessions sessions,
\* and during admission free_spots is exactly the remaining capacity, so no
\* session is pushed without a free slot.
C1_ActiveWithinCapacity ==
    /\ Len(running_sessions) <= max_inference_sessions
    /\ sched_pc = "admit" =>
          free_spots = max_inference_sessions - Len(running_sessions)
\* all slots taken during an admission phase while a request is still queued
C1_Witness ==
    /\ sched_pc = "admit"
    /\ Len(running_sessions) = max_inference_sessions
    /\ REQUEST_QUEUE # <<>>

\* C2: no request is lost: every request the intake thread received is
\* still waiting or has had its prompt feed attempted.
C2_NoRequestLost == \A i \in Range(received) : i \in Waiting \/ i \in Range(fed)

\* C3: FIFO admission: a request is in the active set only if every request
\* received before it has already had its prompt fed.
C3_FifoAdmission ==
    \A b \in ActiveIds : \A a \in Range(received) : a < b => a \in Range(fed)

\* C4: the requests pushed to the shared queue, followed by the staged ones
\* and the one in hand, are the requests received, in arrival order.
C4_QueueKeepsArrivalOrder ==
    appended \o Ids(temp_queue) \o Ids(inference_request) = received
\* the lock was unavailable for an earlier request, and is now held by the
\* intake thread with staged requests to flush ahead of the newest one
C4_Witness ==
    /\ intake_pc = "write"
    /\ temp_queue # <<>>
    /\ appended # <<>>

\* C5: with max_inference_sessions = 1, a request is prompt-fed or active
\* only when every request fed before it has reached a terminal state.
C5_SecondWaitsForFirst ==
    max_inference_sessions = 1 =>
        /\ ActiveIds \subseteq Range(fed)
        /\ \A q \in 1..Len(fed) : \A p \in 1..(q - 1) : Terminal(fed[p])
\* the second request was fed after the first one ended
C5_Witness ==
    /\ max_inference_sessions = 1
    /\ fed = <<1, 2>>
    /\ 2 \in ActiveIds

\* C6: a request that is in the shared queue at the start of a tick with a
\* free slot eventually has its prompt fed.
C6_WaitingEventuallyAdmitted ==
    \A i \in 1..NumRequests :
        (/\ i \in Range(Ids(REQUEST_QUEUE))
         /\ sched_pc = "tick"
         /\ Len(running_sessions) < max_inference_sessions) ~> (i \in Range(fed))

\* C7: a session whose request sets the token limit N (num_predict) has
\* sent at most N chunks on the caller's channel.
C7_TokenLimit ==
    \A s \in Sessions :
        s.request.num_predict # None => Len(s.sent) <= s.request.num_predict

\* C8: a session whose step saw a model error is finished at once and is
\* gone from the active set when the next tick starts.
C8_ModelErrorTerminates ==
    \A s \in Sessions : s.errored => (s.is_finished /\ sched_pc # "tick")

\* the send of the last chunk failed: it was counted but not delivered
SendFailed(s) == s.processed_tokens > Len(s.sent)
\* a session whose step failed, by a model error or by a failed send
Failed(s) == s.errored \/ SendFailed(s)

\* C9: a failed session does not keep a capacity slot: when a tick starts
\* with requests waiting in the queue, no active session is a failed one.
C9_FailedSessionFreesSlot ==
    (sched_pc = "tick" /\ REQUEST_QUEUE # <<>>) => \A s \in Sessions : ~Failed(s)

\* the SaveDataRequests sent for conversation i
Records(i) == Cardinality({k \in 1..Len(tx_results) : tx_results[k].conversation_id = i})

\* C10: a session whose send failed is finished, and exactly one
\* SaveDataRequest was sent for it when it has chat data and a non-empty
\* answer, none otherwise.
C10_DroppedReceiver ==
    \A s \in Sessions :
        SendFailed(s) =>
            /\ s.is_finished
            /\ Records(s.request.id) =
                  IF s.request.chat_data /\ s.answer # <<>> THEN 1 ELSE 0
\* a second session with chat data whose send of a non-empty chunk failed
\* and left exactly one record, after a first session left none
C10_Witness ==
    \E s \in Sessions :
        /\ s.request.id = 2
        /\ SendFailed(s) /\ s.request.chat_data /\ s.answer # <<>>
        /\ tx_results = <<[conversation_id |-> 2, input |-> 2, output |-> s.answer]>>

\* C11: a call that met the end of the stream leaves the session finished,
\* with one SaveDataRequest sent for it if and only if the request has chat
\* data and the answer is not empty; a request without chat data has no
\* SaveDataRequest.
C11_StreamEnd ==
    /\ \A k \in 1..Len(stepped) : stepped[k].result = "eot" =>
            \E s \in Sessions :
                /\ s.request.id = stepped[k].id
                /\ s.is_finished
                /\ Records(s.request.id) =
                      IF s.request.chat_data /\ s.answer # <<>> THEN 1 ELSE 0
    /\ \A s \in Sessions : ~s.request.chat_data => Records(s.request.id) = 0
\* the stream of a session with chat data ended after a non-empty chunk was
\* delivered, and its SaveDataRequest was sent
C11_Witness ==
    \E k \in 1..Len(stepped) : \E s \in Sessions :
        /\ stepped[k].id = s.request.id /\ stepped[k].result = "eot"
        /\ s.request.chat_data /\ s.answer # <<>> /\ ~SendFailed(s)
        /\ Records(s.request.id) = 1

\* C12: no SaveDataRequest is sent for a session in which the model raised
\* an error other than EndOfText.
C12_ErroredSessionHasNoRecord ==
    \A s \in Sessions : s.errored => Records(s.request.id) = 0

\* C13: a request whose prompt feed failed is neither active nor waiting
\* any more; while the admission phase of the failure lasts the inference
\* thread holds the lock and free_spots is still the remaining capacity; a
\* session joins the active set only as the request at the head of the queue,
\* never as one whose feed failed; and the phase ends in a new tick.
C13_FeedFailureSkipsRequest ==
    /\ [](\A i \in feed_failed : i \notin ActiveIds /\ i \notin Waiting)
    /\ [](feed_failed # {} =>
            /\ sched_pc = "admit" /\ lock = "sched"
            /\ free_spots = max_inference_sessions - Len(running_sessions))
    /\ [][\A s \in Range(running_sessions') :
            s.request.id \notin ActiveIds =>
                /\ REQUEST_QUEUE # <<>>
                /\ s.request.id = Head(REQUEST_QUEUE).id
                /\ s.request.id \notin feed_failed']_vars
    /\ (feed_failed # {}) ~> (sched_pc = "tick")
\* the feed of request 1 failed and, in the same admission phase, request 2
\* was admitted into the slot
C13_Witness ==
    /\ sched_pc = "admit"
    /\ feed_failed = {1}
    /\ ActiveIds = {2}
    /\ free_spots = max_inference_sessions - 1

\* C14: every chunk a session emitted is complete, valid text, and when a
\* session has ended and the raw units the model returned for it are complete
\* text, the chunks emitted (the answer) are exactly that text.
C14_RoundTrip ==
    \A s \in Sessions :
        /\ \A k \in 1..Len(s.sent) : from_utf8_ok(s.sent[k])
        /\ (s.is_finished /\ from_utf8_ok(s.raw)) => s.answer = s.raw

\* C15: the chunks on a session's channel are the chunks generated for it,
\* in the order of generation, each once; only the last chunk generated can
\* be missing, when its send failed, which ends the session.
C15_ChunksInGenerationOrder ==
    \A s \in Sessions :
        /\ Len(s.generated) = s.processed_tokens
        /\ s.answer = bytes_of(s.generated)
        /\ \/ s.sent = s.generated
           \/ /\ s.is_finished
              /\ s.generated # <<>>
              /\ s.sent = SubSeq(s.generated, 1, Len(s.generated) - 1)
\* two different chunks were delivered to one caller, one after the other
C15_Witness ==
    \E s \in Sessions :
        /\ Len(s.sent) = 2 /\ s.sent[1] # s.sent[2]
        /\ s.answer = s.sent[1] \o s.sent[2]

\* C16: once rx.recv() has reported the inbound channel closed, the intake
\* thread has halted, and it left no received request staged outside the
\* shared queue.
C16_ChannelCloseHaltsIntake ==
    recv_failed => (intake_pc = "halted" /\ temp_queue = <<>>)

\* the ids of the sessions on which infer_next_token was called in this tick
SteppedIds == {stepped[k].id : k \in 1..Len(stepped)}

\* the ids of the active sessions, in the order of running_sessions
SessionIds(ss) == [k \in 1..Len(ss) |-> ss[k].request.id]

\* C17: the inference thread takes the lock only by an attempt at the top
\* of a tick with a free slot: the attempt succeeds exactly when nobody holds
\* the lock, and otherwise the thread goes on to the stepping pass at once,
\* leaving the lock alone.  In a tick whose attempt failed nothing is fed or
\* admitted, and at the end of its stepping pass every active session was
\* stepped (or was over its limit).
C17_NonBlockingLockAttempt ==
    /\ [](lock = "sched" => sched_pc = "admit")
    /\ [](try_write_failed => sched_pc = "step" /\ lock # "sched")
    /\ []((try_write_failed /\ cur > Len(running_sessions)) =>
            \A s \in Sessions :
                s.request.id \in SteppedIds \/ (s.is_finished /\ ~within_limit(s)))
    /\ [][(sched_pc = "tick" /\ sched_pc' # "tick"
            /\ Len(running_sessions) < max_inference_sessions) =>
              IF lock = "free"
              THEN sched_pc' = "admit" /\ lock' = "sched" /\ ~try_write_failed'
              ELSE sched_pc' = "step" /\ lock' = lock /\ try_write_failed']_vars
    /\ [][try_write_failed' =>
            /\ fed' = fed
            /\ SessionIds(running_sessions') = SessionIds(running_sessions)]_vars
\* the intake thread holds the lock through a whole stepping pass: the
\* attempt failed with a slot free, the active session was stepped all the
\* same, and the lock is still held
C17_Witness ==
    /\ try_write_failed
    /\ lock = "intake"
    /\ running_sessions # <<>>
    /\ cur > Len(running_sessions)
    /\ ActiveIds \subseteq SteppedIds

\* the SaveDataRequests whose task has made its store calls
Stored == {k \in 1..Len(store_calls) : store_calls[k] # <<>>}

\* C18: the persistence thread receives the SaveDataRequests one by one, in
\* the order sent, each once; the task of each makes exactly two store
\* calls, the user entry with the input first and the bot entry with the
\* output second, both with the conversation id of the request; sending a
\* SaveDataRequest involves no step of the persistence side; and every
\* SaveDataRequest sent is eventually stored.
C18_TwoStoreCallsPerRecord ==
    /\ [](Len(store_calls) <= Len(tx_results))
    /\ [](\A k \in Stored :
            /\ Len(store_calls[k]) = 2
            /\ store_calls[k][1] = ChatEntry(tx_results[k].conversation_id, "user",
                                             tx_results[k].input, store_calls[k][1].ok)
            /\ store_calls[k][2] = ChatEntry(tx_results[k].conversation_id, "bot",
                                             tx_results[k].output, store_calls[k][2].ok))
    /\ [][/\ Len(store_calls') \in {Len(store_calls), Len(store_calls) + 1}
          /\ tx_results' # tx_results => store_calls' = store_calls]_vars
    /\ \A k \in 1..NumRequests : (Len(tx_results) >= k) ~> (k \in Stored)
\* two SaveDataRequests were sent and received; the task of the second has
\* made its two calls while the task of the first has not run yet
C18_Witness ==
    /\ Len(tx_results) = 2
    /\ Len(store_calls) = 2
    /\ store_calls[1] = <<>>
    /\ Len(store_calls[2]) = 2
    /\ store_calls[2][1].entry_type = "user" /\ store_calls[2][2].entry_type = "bot"

\* C19: when the store of the user entry fails the bot entry of the same
\* SaveDataRequest is still stored; the calls of a task, failed or not, are
\* never made again; and a step of the persistence side changes nothing of
\* the intake and inference threads.
C19_StoreFailuresAreIndependent ==
    /\ [](\A k \in Stored :
            ~store_calls[k][1].ok =>
                /\ Len(store_calls[k]) = 2
                /\ store_calls[k][2].entry_type = "bot"
                /\ store_calls[k][2].conversation_id = tx_results[k].conversation_id)
    /\ [][\A k \in Stored : k \in Stored' /\ store_calls'[k] = store_calls[k]]_vars
    /\ [][store_calls' # store_calls =>
            UNCHANGED <<schedVars, intakeVars, REQUEST_QUEUE, lock, rx_request>>]_vars
\* both stores of the first SaveDataRequest failed, and the second one was
\* then received and stored without failure
C19_Witness ==
    /\ Len(store_calls) = 2
    /\ Stored = {1, 2}
    /\ ~store_calls[1][1].ok /\ ~store_calls[1][2].ok
    /\ store_calls[2][1].ok /\ store_calls[2][2].ok

\* C20: within a pass of a tick no session is stepped twice, the sessions
\* the pass has visited were each stepped unless over their token limit,
\* the sessions it has not reached were not stepped, and a step puts at
\* most one chunk on the caller's channel: one exactly when its send
\* succeeded, none otherwise.
C20_OneStepPerSessionPerTick ==
    /\ \A j, k \in 1..Len(stepped) : stepped[j].id = stepped[k].id => j = k
    /\ sched_pc # "step" => stepped = <<>>
    /\ \A i \in 1..Len(running_sessions) :
          LET s == running_sessions[i] IN
          /\ i < cur => (s.request.id \in SteppedIds \/ ~within_limit(s))
          /\ i >= cur => s.request.id \notin SteppedIds
    /\ SteppedIds \subseteq ActiveIds
    /\ \A k \in 1..Len(stepped) :
          /\ stepped[k].chunks \in {0, 1}
          /\ stepped[k].chunks = 1 <=> stepped[k].result = "sent"
\* a pass has stepped two sessions, and each step delivered one chunk
C20_Witness ==
    /\ sched_pc = "step"
    /\ Len(running_sessions) = 2
    /\ cur > Len(running_sessions)
    /\ Len(stepped) = 2
    /\ \A k \in 1..2 : stepped[k].id = running_sessions[k].request.id /\ stepped[k].chunks = 1

\* C21: a session with chat data and a non-empty answer that finished
\* without a model error and without a failed send has exactly one
\* SaveDataRequest, whether it ended on end of text or on its token limit;
\* no conversation ever has more than one.
C21_OneRecordPerFinishedSession ==
    /\ \A s \in Sessions :
          (s.is_finished /\ s.request.chat_data /\ s.answer # <<>> /\ ~Failed(s))
              => Records(s.request.id) = 1
    /\ \A i \in 1..NumRequests : Records(i) <= 1

\* C22: a finished session exists only inside the stepping pass that
\* finished it, at a position the pass has already visited: the reap at the
\* end of that pass removes it.  No call of infer_next_token is made on a
\* finished session, no step changes it (nothing more is sent on its
\* channel), and a session that left the active set never comes back.
C22_FinishedIsTerminal ==
    /\ [](\A i \in 1..Len(running_sessions) :
            running_sessions[i].is_finished => (sched_pc = "step" /\ i < cur))
    /\ [][\A s \in Sessions : s.is_finished =>
            /\ \A after \in Sessions' : after.request.id = s.request.id => after = s
            /\ Len(stepped') > Len(stepped) =>
                  stepped'[Len(stepped')].id # s.request.id]_vars
    /\ [][(ActiveIds' \ ActiveIds) \cap Range(fed) = {}]_vars
\* the pass has finished the first of two sessions, after a chunk was
\* delivered on its channel, and is about to step the second
C22_Witness ==
    /\ sched_pc = "step"
    /\ Len(running_sessions) = 2
    /\ cur = 2
    /\ running_sessions[1].is_finished /\ running_sessions[1].sent # <<>>
    /\ ~running_sessions[2].is_finished

\* the template with each slot filled once: what stands in a slot is not
\* looked at again
fill(template, history, user_prompt) ==
    LET piece(sym) == IF sym = HISTORY THEN history
                      ELSE IF sym = PROMPT THEN user_prompt ELSE <<sym>>
        F[k \in 0..Len(template)] ==
            IF k = 0 THEN <<>> ELSE F[k - 1] \o piece(template[k])
    IN  F[Len(template)]
\* the prior turns in order, each behind its role marker and ended by a newline
turns(entries) ==
    LET F[k \in 0..Len(entries)] ==
            IF k = 0 THEN <<>>
            ELSE F[k - 1] \o (IF entries[k].entry_type = "User" THEN USER_PREFIX
                                                                ELSE ANSWER_PREFIX)
                          \o entries[k].content \o <<"\n">>
    IN  F[Len(entries)]

\* C23: the constructed prompt is the request text when there is no chat
\* data; with chat data it is the template (the request's system prompt,
\* else the default) whose history slot holds the prior turns in order
\* behind their role markers and whose prompt slot holds the user marker
\* and the request text, whatever the texts contain.
C23_PromptConstruction ==
    processed_prompt # <<>> =>
        processed_prompt[1] =
            IF prompt_request.chat_data = <<>> THEN prompt_request.prompt
            ELSE fill(IF prompt_request.system_prompt = <<>> THEN CONVERSATION_PROMPT
                      ELSE prompt_request.system_prompt[1],
                      turns(prompt_request.chat_data[1]),
                      USER_PREFIX \o prompt_request.prompt)

\* C24: processed_tokens of a session is the number of chunks appended to
\* its answer, each of which was handed to send (all but at most the last
\* are on the channel), and the answer is their concatenation in order; a
\* SaveDataRequest carries the answer as output and the request text as
\* input; no step lowers processed_tokens or takes a chunk back.
C24_CountAndAnswerAgree ==
    /\ [](\A s \in Sessions :
            /\ s.processed_tokens = Len(s.generated)
            /\ s.answer = bytes_of(s.generated)
            /\ s.processed_tokens - Len(s.sent) \in {0, 1})
    /\ [](\A k \in 1..Len(tx_results) : \A s \in Sessions :
            s.request.id = tx_results[k].conversation_id =>
                (tx_results[k].output = s.answer /\ tx_results[k].input = s.request.id))
    /\ [][\A s \in Sessions : \A after \in Sessions' :
            after.request.id = s.request.id =>
                /\ after.processed_tokens >= s.processed_tokens
                /\ SubSeq(after.generated, 1, Len(s.generated)) = s.generated]_vars
\* a session generated two chunks, the send of the second failed, and its
\* SaveDataRequest carries both
C24_Witness ==
    \E s \in Sessions : \E k \in 1..Len(tx_results) :
        /\ s.processed_tokens = 2 /\ Len(s.sent) = 1
        /\ tx_results[k].conversation_id = s.request.id
        /\ tx_results[k].output = s.generated[1] \o s.generated[2]

\* C25: a request staged in temp_queue is eventually pushed to
\* REQUEST_QUEUE, whether or not another request arrives.
C25_StagedEventuallyAppended ==
    \A i \in 1..NumRequests :
        (i \in Range(Ids(temp_queue))) ~> (i \in Range(appended))

\* C26: a session whose request has a num_predict eventually leaves the
\* active set, whatever the model returns.
C26_LimitedSessionTerminates ==
    \A i \in 1..NumRequests :
        (\E s \in Sessions : s.request.id = i /\ s.request.num_predict # None)
            ~> (i \notin ActiveIds)

====
